---- MODULE Spec2Model ----
(***************************************************************************)
(* Task management engine of hackathon2_todo.                              *)
(*                                                                         *)
(* The repository holds two implementations of the engine:                 *)
(*   phase 1  an in-memory TaskRepository driven by TaskService (CLI);     *)
(*   phase 2  a database-backed TaskService / TagService behind a          *)
(*            FastAPI layer with pydantic request schemas.                 *)
(* The variable `phase` selects which implementation a behaviour runs.     *)
(***************************************************************************)
EXTENDS Integers, Sequences, FiniteSets, TLC

(***************************************************************************)
(* Bounds of the model.                                                    *)
(***************************************************************************)
\* calls of the phase 1 service that change the store
MaxWrites == 3
\* requests of phase 2 that commit a change
MaxCommits == 2
\* the latest reading of the clock
MaxClock == 2
\* tasks stored before the threads start
MaxThreadTasks == 1
\* the requests of phase 2 served at the same time, in all
MaxRequests == 3
\* the tasks of a store the queries of list_tasks start from
MaxListed == 3

(***************************************************************************)
(* Program constants.                                                      *)
(***************************************************************************)
MAX_TITLE_LENGTH == 200
MAX_DESCRIPTION_LENGTH == 1000

(***************************************************************************)
(* Strings.  A string is kept run-length encoded: a sequence of runs       *)
(* <<character, count>> with count >= 1 and no two neighbouring runs of    *)
(* the same character, so that strings of 200 or 1000 characters stay      *)
(* small.  len, strip and lower are computed on the runs as Python         *)
(* computes them on the characters.                                        *)
(***************************************************************************)
Rep(c, n) == IF n = 0 THEN <<>> ELSE << <<c, n>> >>

Cat(s, t) ==
  IF s = <<>> THEN t
  ELSE IF t = <<>> THEN s
  ELSE IF s[Len(s)][1] = t[1][1]
       THEN SubSeq(s, 1, Len(s) - 1)
              \o << <<t[1][1], s[Len(s)][2] + t[1][2]>> >> \o Tail(t)
       ELSE s \o t

RECURSIVE StrLen(_)
StrLen(s) == IF s = <<>> THEN 0 ELSE s[1][2] + StrLen(Tail(s))

IsSpace(c) == c = " "

lstrip(s) == IF s # <<>> /\ IsSpace(s[1][1]) THEN Tail(s) ELSE s

rstrip(s) == IF s # <<>> /\ IsSpace(s[Len(s)][1]) THEN SubSeq(s, 1, Len(s) - 1) ELSE s

strip(s) == rstrip(lstrip(s))

Uppers == <<"A", "B", "C", "D", "E", "F", "G", "H", "I", "J", "K", "L", "M",
            "N", "O", "P", "Q", "R", "S", "T", "U", "V", "W", "X", "Y", "Z">>

Lowers == <<"a", "b", "c", "d", "e", "f", "g", "h", "i", "j", "k", "l", "m",
            "n", "o", "p", "q", "r", "s", "t", "u", "v", "w", "x", "y", "z">>

LowerChar(c) ==
  IF \E i \in 1..Len(Uppers) : Uppers[i] = c
  THEN Lowers[CHOOSE i \in 1..Len(Uppers) : Uppers[i] = c]
  ELSE c

RECURSIVE lower(_)
lower(s) == IF s = <<>> THEN <<>>
            ELSE Cat(<< <<LowerChar(s[1][1]), s[1][2]>> >>, lower(Tail(s)))

\* a string literal, from its characters
RECURSIVE Str(_)
Str(cs) == IF cs = <<>> THEN <<>> ELSE Cat(Rep(cs[1], 1), Str(Tail(cs)))

\* A message is the sequence of its characters.
\* str.lower of a message
LowerText(m) == [k \in DOMAIN m |-> LowerChar(m[k])]

\* Python's `sub in m`
Contains(m, sub) ==
  \E k \in 0..(Len(m) - Len(sub)) : SubSeq(m, k + 1, k + Len(sub)) = sub

(***************************************************************************)
(* Optional values: None is the empty tuple, Some(v) the 1-tuple.          *)
(***************************************************************************)
None == <<>>
Some(v) == <<v>>

(***************************************************************************)
(* Error messages (the text the caller can match on).                      *)
(***************************************************************************)
MSG_TITLE_EMPTY ==
  <<"T", "a", "s", "k", " ", "t", "i", "t", "l", "e", " ", "c", "a", "n", "n", "o",
      "t", " ", "b", "e", " ", "e", "m", "p", "t", "y">>

MSG_TITLE_LONG ==
  <<"T", "a", "s", "k", " ", "t", "i", "t", "l", "e", " ", "c", "a", "n", "n", "o",
      "t", " ", "e", "x", "c", "e", "e", "d", " ", "2", "0", "0", " ", "c", "h", "a", "r",
      "a", "c", "t", "e", "r", "s">>

MSG_DESC_LONG ==
  <<"T", "a", "s", "k", " ", "d", "e", "s", "c", "r", "i", "p", "t", "i", "o", "n",
      " ", "c", "a", "n", "n", "o", "t", " ", "e", "x", "c", "e", "e", "d", " ", "1", "0",
      "0", "0", " ", "c", "h", "a", "r", "a", "c", "t", "e", "r", "s">>

MSG_P1_NO_FIELD ==
  <<"M", "u", "s", "t", " ", "p", "r", "o", "v", "i", "d", "e", " ", "a", "t", " ",
      "l", "e", "a", "s", "t", " ", "o", "n", "e", " ", "f", "i", "e", "l", "d", " ", "t",
      "o", " ", "u", "p", "d", "a", "t", "e", " ", "(", "t", "i", "t", "l", "e", " ", "o",
      "r", " ", "d", "e", "s", "c", "r", "i", "p", "t", "i", "o", "n", ")">>

MSG_NOT_FOUND ==
  <<"T", "a", "s", "k", " ", "w", "i", "t", "h", " ", "I", "D", " ", "n", "o", "t",
      " ", "f", "o", "u", "n", "d">>

MSG_NONE == <<>>

MSG_INVALID_ID ==
  <<"I", "n", "v", "a", "l", "i", "d", " ", "t", "a", "s", "k", " ", "I", "D", ":",
      " ", "m", "u", "s", "t", " ", "b", "e", " ", "a", " ", "p", "o", "s", "i", "t", "i",
      "v", "e", " ", "i", "n", "t", "e", "g", "e", "r">>

(***************************************************************************)
(* State.                                                                  *)
(*   phase     1 or 2: the implementation this behaviour runs              *)
(*   now       the wall clock read by datetime.now() / datetime.utcnow()   *)
(*   storage   TaskRepository._storage: id -> Task dict                    *)
(*   next_id   TaskRepository._next_id                                     *)
(*   tasks     table tasks: id -> row                                      *)
(*   tags      table tags: id -> row                                       *)
(*   task_tags table task_tags: set of <<task_id, tag_id>>                 *)
(*   task_pk   next primary key of table tasks                             *)
(*   tag_pk    next primary key of table tags                              *)
(*   writes    the number of calls so far that changed the store           *)
(*   ever      history: the identifiers add_task has handed out            *)
(*   deleted   history: the identifiers delete_task has removed            *)
(* and, for calls of the phase 1 service made by several threads:          *)
(*   heap      the Task dicts add_task has built, by the id they were      *)
(*             built with: the values the service's `task` variables and   *)
(*             the entries of _storage refer to                            *)
(*   keys      the keys of TaskRepository._storage; the entry of key k     *)
(*             refers to heap[k]                                           *)
(*   threads   per thread: the call it makes, the statement it is at (pc)  *)
(*             and its outcome; its local `task` refers to                 *)
(*             heap[task_id] once get_task_by_id has returned              *)
(*   origin    history: the stored tasks when the first thread started     *)
(* and, for requests of phase 2 served at the same time:                   *)
(*   sessions  per request in flight: the statement it is at (pc) and what *)
(*             its AsyncSession has flushed but not committed              *)
(*   log       history: the requests that have ended, with their outcome   *)
(***************************************************************************)
VARIABLES phase, now, storage, next_id, tasks, tags, task_tags, task_pk, tag_pk, writes,
          ever, deleted, heap, keys, threads, origin, sessions, log

vars == <<phase, now, storage, next_id, tasks, tags, task_tags, task_pk, tag_pk, writes,
          ever, deleted, heap, keys, threads, origin, sessions, log>>

tvars == <<heap, keys, threads, origin>>

svars == <<sessions, log>>

\* the threads that call the service
Threads == {1, 2}

\* a thread that has made no call yet
Idle == [pc |-> "idle", op |-> "none", task_id |-> 0, title |-> None,
         description |-> None, res |-> "none"]

\* the requests served at the same time, each with its own AsyncSession
Sessions == {1, 2}

\* a session with no request
NoSession == [pc |-> "idle", op |-> "none", task_id |-> 0, names |-> <<>>, i |-> 0,
              new_tasks |-> <<>>, new_tags |-> <<>>, new_links |-> {},
              gone_links |-> {}]

history == <<ever, deleted>>

p1vars == <<storage, next_id>>

p2vars == <<tasks, tags, task_tags, task_pk, tag_pk>>

(***************************************************************************)
(* Phase 1: src/phase1/src/task_service.py, task_repository.py.            *)
(* Every operation is a function of the current store and its arguments:   *)
(* it yields the outcome the caller sees (res, msg, errid, id) and the     *)
(* store it leaves behind (storage, next_id).                              *)
(***************************************************************************)
R1(res, msg, errid, id, sto, nid) ==
  [res |-> res, msg |-> msg, errid |-> errid, id |-> id, storage |-> sto, next_id |-> nid]

\* raise ValidationError(msg): the store is as the call left it so far
Invalid1(msg, sto) == R1("ValidationError", msg, 0, 0, sto, next_id)

\* raise TaskNotFoundError(task_id)
NotFound1(task_id) == R1("TaskNotFoundError", MSG_NOT_FOUND, task_id, 0, storage, next_id)

\* a check of the length of the title as given, before it is trimmed
validate_title_untrimmed(title) ==
  LET stripped == strip(title) IN
  IF stripped = <<>>
  THEN [ok |-> FALSE, value |-> stripped, msg |-> MSG_TITLE_EMPTY]
  ELSE IF StrLen(title) > MAX_TITLE_LENGTH
  THEN [ok |-> FALSE, value |-> stripped, msg |-> MSG_TITLE_LONG]
  ELSE [ok |-> TRUE, value |-> stripped, msg |-> MSG_NONE]

\* TaskService._validate_title
validate_title(title) ==
  LET stripped == strip(title) IN
  IF stripped = <<>>
  THEN [ok |-> FALSE, value |-> stripped, msg |-> MSG_TITLE_EMPTY]
  ELSE IF StrLen(stripped) > MAX_TITLE_LENGTH
  THEN [ok |-> FALSE, value |-> stripped, msg |-> MSG_TITLE_LONG]
  ELSE [ok |-> TRUE, value |-> stripped, msg |-> MSG_NONE]

\* TaskService._validate_description
validate_description(description) ==
  IF StrLen(description) > MAX_DESCRIPTION_LENGTH
  THEN [ok |-> FALSE, value |-> description, msg |-> MSG_DESC_LONG]
  ELSE [ok |-> TRUE, value |-> description, msg |-> MSG_NONE]

\* TaskRepository.generate_id: the id handed out when the counter is n
generate_id(n) == n

\* generate_id without the increment of _next_id
generate_id_next_stuck(n) == n

\* TaskRepository.generate_id: the counter after handing out an id
generate_id_next(n) == n + 1

\* TaskRepository.find_by_id: dict.get
find_by_id(task_id) == IF task_id \in DOMAIN storage THEN Some(storage[task_id]) ELSE None

\* TaskRepository.create / update: _storage[id] = task
Put(store, task_id, task) ==
  [k \in DOMAIN store \cup {task_id} |-> IF k = task_id THEN task ELSE store[k]]

\* a delete that leaves the entry in the dict
Remove_kept(store, task_id) == store

\* TaskRepository.delete
Remove(store, task_id) == [k \in DOMAIN store \ {task_id} |-> store[k]]

\* add_task that draws the identifier before it validates
add_task_id_first(title, description) ==
  LET tv == validate_title(title)
      dv == validate_description(description)
      task_id == generate_id(next_id)
      task == [id |-> task_id, title |-> tv.value, description |-> dv.value,
               completed |-> FALSE, created_at |-> now, updated_at |-> now]
  IN IF ~tv.ok THEN R1("ValidationError", tv.msg, 0, 0, storage, generate_id_next(next_id))
     ELSE IF ~dv.ok
     THEN R1("ValidationError", dv.msg, 0, 0, storage, generate_id_next(next_id))
     ELSE R1("ok", MSG_NONE, 0, task_id, Put(storage, task_id, task),
             generate_id_next(next_id))

\* TaskService.add_task
add_task(title, description) ==
  LET tv == validate_title(title)
      dv == validate_description(description)
      task_id == generate_id(next_id)
      task == [id |-> task_id, title |-> tv.value, description |-> dv.value,
               completed |-> FALSE, created_at |-> now, updated_at |-> now]
  IN IF ~tv.ok THEN Invalid1(tv.msg, storage)
     ELSE IF ~dv.ok THEN Invalid1(dv.msg, storage)
     ELSE R1("ok", MSG_NONE, 0, task_id, Put(storage, task_id, task),
             generate_id_next(next_id))

\* TaskService.get_task_by_id
get_task_by_id(task_id) ==
  IF find_by_id(task_id) = None THEN NotFound1(task_id)
  ELSE R1("ok", MSG_NONE, 0, task_id, storage, next_id)

\* TaskService.update_task (title, description: None when the caller leaves
\* the argument out).  The Task dict found in the repository is modified in
\* place, so an assignment made before a later validation raises stays in
\* the store.
update_task(task_id, title, description) ==
  IF title = None /\ description = None THEN Invalid1(MSG_P1_NO_FIELD, storage)
  ELSE IF find_by_id(task_id) = None THEN NotFound1(task_id)
  ELSE LET task == storage[task_id]
           tv == validate_title(title[1])
           dv == validate_description(description[1])
           t1 == IF title # None THEN [task EXCEPT !.title = tv.value] ELSE task
           t2 == IF description # None THEN [t1 EXCEPT !.description = dv.value] ELSE t1
       IN IF title # None /\ ~tv.ok THEN Invalid1(tv.msg, storage)
          ELSE IF description # None /\ ~dv.ok
          THEN Invalid1(dv.msg, Put(storage, task_id, t1))
          ELSE R1("ok", MSG_NONE, 0, task_id,
                  Put(storage, task_id, [t2 EXCEPT !.updated_at = now]), next_id)

\* delete_task that empties the repository
delete_task_clear(task_id) ==
  IF find_by_id(task_id) = None THEN NotFound1(task_id)
  ELSE R1("ok", MSG_NONE, 0, task_id, <<>>, next_id)

\* TaskService.delete_task
delete_task(task_id) ==
  IF find_by_id(task_id) = None THEN NotFound1(task_id)
  ELSE R1("ok", MSG_NONE, 0, task_id, Remove(storage, task_id), next_id)

\* complete_task that flips the flag instead of setting it
complete_task_toggle(task_id) ==
  IF find_by_id(task_id) = None THEN NotFound1(task_id)
  ELSE R1("ok", MSG_NONE, 0, task_id,
          Put(storage, task_id,
              [storage[task_id] EXCEPT !.completed = ~storage[task_id].completed,
                                       !.updated_at = now]),
          next_id)

\* TaskService.complete_task
complete_task(task_id) ==
  IF find_by_id(task_id) = None THEN NotFound1(task_id)
  ELSE R1("ok", MSG_NONE, 0, task_id,
          Put(storage, task_id,
              [storage[task_id] EXCEPT !.completed = TRUE, !.updated_at = now]),
          next_id)

\* uncomplete_task that stamps created_at as well
uncomplete_task_restamped(task_id) ==
  IF find_by_id(task_id) = None THEN NotFound1(task_id)
  ELSE R1("ok", MSG_NONE, 0, task_id,
          Put(storage, task_id,
              [storage[task_id] EXCEPT !.completed = FALSE, !.created_at = now,
                                       !.updated_at = now]),
          next_id)

\* TaskService.uncomplete_task
uncomplete_task(task_id) ==
  IF find_by_id(task_id) = None THEN NotFound1(task_id)
  ELSE R1("ok", MSG_NONE, 0, task_id,
          Put(storage, task_id,
              [storage[task_id] EXCEPT !.completed = FALSE, !.updated_at = now]),
          next_id)

\* the keys in descending order
RECURSIVE SortedIds_descending(_)
SortedIds_descending(S) ==
  IF S = {} THEN <<>>
  ELSE LET m == CHOOSE x \in S : \A y \in S : x >= y
       IN <<m>> \o SortedIds_descending(S \ {m})

\* sorted(keys)
RECURSIVE SortedIds(_)
SortedIds(S) ==
  IF S = {} THEN <<>>
  ELSE LET m == CHOOSE x \in S : \A y \in S : x <= y
       IN <<m>> \o SortedIds(S \ {m})

\* TaskRepository.find_all / TaskService.get_all_tasks
find_all == [i \in 1..Cardinality(DOMAIN storage) |-> storage[SortedIds(DOMAIN storage)[i]]]

(***************************************************************************)
(* Inputs of phase 1.                                                      *)
(***************************************************************************)
T_a == Rep("a", 1)
T_pad == Cat(Rep(" ", 2), Cat(Rep("a", 1), Rep(" ", 2)))
T_empty == <<>>
T_blank == Rep(" ", 3)
T_max == Rep("a", MAX_TITLE_LENGTH)
T_padmax == Cat(Rep(" ", 1), Rep("a", MAX_TITLE_LENGTH))
T_long == Rep("a", MAX_TITLE_LENGTH + 1)

Titles == {T_a, T_pad, T_empty, T_blank, T_max, T_padmax, T_long}

D_empty == <<>>
D_max == Rep("d", MAX_DESCRIPTION_LENGTH)
D_long == Rep("d", MAX_DESCRIPTION_LENGTH + 1)

Descriptions == {D_empty, D_max, D_long}

Opt(S) == {None} \cup {Some(v) : v \in S}

\* the identifiers a caller names: those handed out so far and the next one
CallerIds1 == 1..next_id

(***************************************************************************)
(* Phase 1 actions: one call of the service by the command loop.           *)
(***************************************************************************)
Step1(op, r) ==
  /\ phase = 1
  /\ IF <<r.storage, r.next_id>> # <<storage, next_id>>
     THEN writes < MaxWrites /\ writes' = writes + 1
     ELSE writes' = writes
  /\ storage' = r.storage
  /\ next_id' = r.next_id
  /\ ever' = IF op = "add" /\ r.res = "ok" THEN ever \cup {r.id} ELSE ever
  /\ deleted' = IF op = "delete" /\ r.res = "ok" THEN deleted \cup {r.id} ELSE deleted
  /\ UNCHANGED <<phase, now, p2vars, tvars, svars>>

Add == \E t \in Titles, d \in Descriptions : Step1("add", add_task(t, d))

Get == \E i \in CallerIds1 : Step1("get", get_task_by_id(i))

Update == \E i \in CallerIds1, t \in Opt(Titles), d \in Opt(Descriptions) :
            Step1("update", update_task(i, t, d))

Delete == \E i \in CallerIds1 : Step1("delete", delete_task(i))

Complete == \E i \in CallerIds1 : Step1("complete", complete_task(i))

Uncomplete == \E i \in CallerIds1 : Step1("uncomplete", uncomplete_task(i))

GetAll == Step1("list", R1("ok", MSG_NONE, 0, 0, storage, next_id))

(***************************************************************************)
(* Phase 1, the command loop: src/phase1/src/main.py.  A command names its *)
(* task by a word of the input line, a tuple of characters here.           *)
(***************************************************************************)
Digits == <<"0", "1", "2", "3", "4", "5", "6", "7", "8", "9">>

\* the number a sequence of decimal digits denotes
RECURSIVE Decimal(_)
Decimal(cs) ==
  IF cs = <<>> THEN 0
  ELSE 10 * Decimal(SubSeq(cs, 1, Len(cs) - 1))
       + (CHOOSE k \in 0..9 : Digits[k + 1] = cs[Len(cs)])

\* int(word): blanks around the number are dropped, a sign may precede the
\* digits; None stands for ValueError
int(word) ==
  LET inked == {k \in 1..Len(word) : word[k] # " "}
      lo == CHOOSE k \in inked : \A j \in inked : k <= j
      hi == CHOOSE k \in inked : \A j \in inked : k >= j
      signed == word[lo] \in {"+", "-"}
      digits == SubSeq(word, IF signed THEN lo + 1 ELSE lo, hi)
  IN IF inked = {} THEN None
     ELSE IF digits = <<>> THEN None
     ELSE IF \E k \in 1..Len(digits) : \A d \in 1..10 : Digits[d] # digits[k] THEN None
     ELSE Some(IF word[lo] = "-" THEN 0 - Decimal(digits) ELSE Decimal(digits))

\* the commands that take a task identifier
IdCommands == {"view", "update", "delete", "complete", "uncomplete"}

\* handle_view, handle_update, handle_delete, handle_complete,
\* handle_uncomplete with the word args[0] (title, description: the flags of
\* update); main prints the message of a TodoAppError the service raises
handle(command, word, title, description) ==
  LET task_id == int(word) IN
  IF task_id = None
  THEN R1("InvalidTaskIdError", MSG_INVALID_ID, 0, 0, storage, next_id)
  ELSE CASE command = "view" -> get_task_by_id(task_id[1])
         [] command = "update" -> update_task(task_id[1], title, description)
         [] command = "delete" -> delete_task(task_id[1])
         [] command = "complete" -> complete_task(task_id[1])
         [] command = "uncomplete" -> uncomplete_task(task_id[1])

\* the words a user types for the identifier
IdWords ==
  {<<"1">>, <<"2">>, <<"0">>, <<"-", "1">>, <<"+", "1">>, <<"0", "1">>, <<" ", "1", " ">>,
   <<"a">>, <<"1", "a">>, <<"1", ".", "0">>, <<"-">>, <<" ">>, <<"1", "0">>}

\* one command of the loop that names a task
Command ==
  \E c \in IdCommands, w \in IdWords :
    Step1(c, handle(c, w, Some(T_a), None))

(***************************************************************************)
(* Phase 2: src/phase2/backend/app.  A request is validated by its         *)
(* pydantic schema, handled by the endpoint and the service inside one     *)
(* database session, and committed; a request that raises leaves the       *)
(* session without a commit, which rolls its writes back.                  *)
(***************************************************************************)
MSG_P2_NO_FIELD ==
  <<"A", "t", " ", "l", "e", "a", "s", "t", " ", "o", "n", "e", " ", "f", "i", "e",
      "l", "d", " ", "m", "u", "s", "t", " ", "b", "e", " ", "p", "r", "o", "v", "i", "d",
      "e", "d">>

MSG_P2_INVALID ==
  <<"v", "a", "l", "i", "d", "a", "t", "i", "o", "n", " ", "e", "r", "r", "o", "r">>

MSG_P2_STORAGE ==
  <<"I", "n", "t", "e", "r", "n", "a", "l", " ", "S", "e", "r", "v", "e", "r", " ",
      "E", "r", "r", "o", "r">>

\* PriorityEnum
PriorityEnum == {"high", "medium", "low"}

\* TaskService: colors, the palette of random.choice
colors == <<"#3B82F6", "#EF4444", "#F59E0B", "#10B981", "#8B5CF6", "#EC4899">>

\* the database as the session finds it
DB == [tasks |-> tasks, tags |-> tags, task_tags |-> task_tags,
       task_pk |-> task_pk, tag_pk |-> tag_pk]

R2(res, msg, id, db, clock) ==
  [res |-> res, msg |-> msg, id |-> id, db |-> db, now |-> clock]

\* 422: the request is refused before the service runs
Refused(msg) == R2("ValidationError", msg, 0, DB, now)

\* 404
Missing(task_id) == R2("TaskNotFoundError", MSG_NOT_FOUND, task_id, DB, now)

\* an exception of the storage layer: no commit, the session rolls back
Failed(clock) == R2("StorageError", MSG_P2_STORAGE, 0, DB, clock)

\* A field of a PATCH body: UNSET when the body leaves it out, NULL when it
\* is given as null, Val(v) when it is given a value.
UNSET == <<>>
NULL == << <<>> >>
Val(v) == << <<v>> >>
IsSet(f) == f # UNSET
IsNull(f) == f = NULL
HasValue(f) == f # UNSET /\ f # NULL
ValueOf(f) == f[1][1]

\* TaskBase.title: Field(min_length=1, max_length=200) on the string as sent,
\* then title_not_empty, which returns the stripped title
TaskBase_title(v) ==
  IF StrLen(v) < 1 \/ StrLen(v) > MAX_TITLE_LENGTH THEN [ok |-> FALSE, value |-> v]
  ELSE IF strip(v) = <<>> THEN [ok |-> FALSE, value |-> v]
  ELSE [ok |-> TRUE, value |-> strip(v)]

\* TaskBase.description: Field(default="", max_length=1000)
TaskBase_description(v) == [ok |-> StrLen(v) <= MAX_DESCRIPTION_LENGTH, value |-> v]

\* TaskCreate: the request body of POST /tasks.  description, priority and
\* due_date are UNSET or Val(v) (null is refused for the first two),
\* tags is a sequence of names.
TaskCreate(req) ==
  LET tv == TaskBase_title(req.title)
      dv == IF HasValue(req.description)
            THEN TaskBase_description(ValueOf(req.description))
            ELSE [ok |-> ~IsNull(req.description), value |-> <<>>]
  IN [ok |-> tv.ok /\ dv.ok /\ ~IsNull(req.priority),
      title |-> tv.value,
      description |-> dv.value,
      priority |-> IF HasValue(req.priority) THEN ValueOf(req.priority) ELSE "medium",
      due_date |-> IF HasValue(req.due_date) THEN Some(ValueOf(req.due_date)) ELSE None,
      tags |-> req.tags]

\* TaskUpdate.title: Field(None, min_length=1, max_length=200), then
\* title_not_empty: v.strip() if v else None
TaskUpdate_title(f) ==
  IF ~HasValue(f) THEN [ok |-> TRUE, value |-> f]
  ELSE LET v == ValueOf(f) IN
       IF StrLen(v) < 1 \/ StrLen(v) > MAX_TITLE_LENGTH THEN [ok |-> FALSE, value |-> f]
       ELSE IF strip(v) = <<>> THEN [ok |-> FALSE, value |-> f]
       ELSE [ok |-> TRUE, value |-> Val(strip(v))]

\* TaskUpdate.description: Field(None, max_length=1000)
TaskUpdate_description(f) ==
  [ok |-> ~HasValue(f) \/ StrLen(ValueOf(f)) <= MAX_DESCRIPTION_LENGTH, value |-> f]

\* TaskUpdate: the request body of PATCH /tasks/{id}
TaskUpdate(req) ==
  LET tv == TaskUpdate_title(req.title)
      dv == TaskUpdate_description(req.description)
  IN [ok |-> tv.ok /\ dv.ok,
      data |-> [req EXCEPT !.title = tv.value, !.description = dv.value]]

\* Python truth value of a dumped field: None, "", False and [] are false
Truthy(field, f) ==
  /\ HasValue(f)
  /\ CASE field = "title" -> ValueOf(f) # <<>>
       [] field = "description" -> ValueOf(f) # <<>>
       [] field = "priority" -> TRUE
       [] field = "completed" -> ValueOf(f)
       [] field = "due_date" -> TRUE
       [] field = "tags" -> ValueOf(f) # <<>>

UpdateFields == {"title", "description", "priority", "completed", "due_date", "tags"}

\* model_dump(exclude_unset=True): the fields the body supplies
Supplied(req) == {f \in UpdateFields : IsSet(req[f])}

\* the endpoint without its check of the body
AnyTruthy_skipped(data) == TRUE

\* endpoint update_task: any(task_data.model_dump(exclude_unset=True).values())
AnyTruthy(data) == \E f \in Supplied(data) : Truthy(f, data[f])

\* select(Tag).where(func.lower(Tag.name) == tag_name.lower(), ...)
TagsNamed(db, tag_name) ==
  {t \in DOMAIN db.tags : lower(db.tags[t].name) = lower(tag_name)}

\* The tag loop of create_task and update_task from name i on: find or create
\* the tag, then link it.  draws[i] is what random.choice returns for name i.
\* scalar_one_or_none raises when several tags match; a second link of the
\* same tag violates the primary key of task_tags.
RECURSIVE LinkTags(_, _, _, _, _)
LinkTags(db, task_id, names, draws, i) ==
  IF i > Len(names) THEN [ok |-> TRUE, db |-> db]
  ELSE LET found == TagsNamed(db, names[i]) IN
       IF Cardinality(found) > 1 THEN [ok |-> FALSE, db |-> db]
       ELSE LET tag_id == IF found = {} THEN db.tag_pk ELSE CHOOSE t \in found : TRUE
                db1 == IF found = {}
                       THEN [db EXCEPT
                               !.tags = Put(db.tags, tag_id,
                                            [id |-> tag_id, name |-> lower(names[i]),
                                             color |-> draws[i]]),
                               !.tag_pk = db.tag_pk + 1]
                       ELSE db
            IN IF <<task_id, tag_id>> \in db1.task_tags THEN [ok |-> FALSE, db |-> db1]
               ELSE LinkTags([db1 EXCEPT !.task_tags = db1.task_tags \cup {<<task_id, tag_id>>}],
                             task_id, names, draws, i + 1)

\* POST /tasks: TaskCreate, then TaskService.create_task.  created_at and
\* updated_at are two calls of datetime.utcnow (the default factories of the
\* model), dt apart.
create_task(req, draws, dt) ==
  LET body == TaskCreate(req)
      task_id == task_pk
      task == [id |-> task_id, title |-> body.title, description |-> body.description,
               completed |-> FALSE, priority |-> body.priority, due_date |-> body.due_date,
               created_at |-> now, updated_at |-> now + dt]
      db0 == [DB EXCEPT !.tasks = Put(tasks, task_id, task), !.task_pk = task_pk + 1]
      linked == LinkTags(db0, task_id, body.tags, draws, 1)
  IN IF ~body.ok THEN Refused(MSG_P2_INVALID)
     ELSE IF ~linked.ok THEN Failed(now + dt)
     ELSE R2("ok", MSG_NONE, task_id, linked.db, now + dt)

\* GET /tasks/{id}: TaskService.get_task_by_id
get_task(task_id) ==
  IF task_id \notin DOMAIN tasks THEN Missing(task_id)
  ELSE R2("ok", MSG_NONE, task_id, DB, now)

\* the columns of tasks that refuse NULL
NotNullable == {"title", "description", "priority", "completed"}

\* update_task dumping the body without exclude_unset: a field the body leaves
\* out is dumped as None, and the nullable column due_date is set to it
SetFields_unset_too(task, data) ==
  [c \in DOMAIN task |->
     IF c = "due_date"
     THEN (IF HasValue(data[c]) THEN Some(ValueOf(data[c])) ELSE None)
     ELSE IF c \in Supplied(data) \ {"tags"} /\ HasValue(data[c]) THEN ValueOf(data[c])
     ELSE task[c]]

\* TaskService.update_task: setattr for every dumped field but tags
SetFields(task, data) ==
  [c \in DOMAIN task |->
     IF c \in Supplied(data) \ {"tags"}
     THEN IF c = "due_date"
          THEN (IF HasValue(data[c]) THEN Some(ValueOf(data[c])) ELSE None)
          ELSE (IF HasValue(data[c]) THEN ValueOf(data[c]) ELSE task[c])
     ELSE task[c]]

\* PATCH /tasks/{id}: TaskUpdate, the endpoint's check, TaskService.update_task
update_task2(task_id, req, draws) ==
  LET body == TaskUpdate(req)
      data == body.data
      task == tasks[task_id]
      t1 == [SetFields(task, data) EXCEPT !.updated_at = now]
      db0 == [DB EXCEPT !.tasks = Put(tasks, task_id, t1)]
      db1 == [db0 EXCEPT !.task_tags = {l \in task_tags : l[1] # task_id}]
      linked == IF HasValue(data.tags)
                THEN LinkTags(db1, task_id, ValueOf(data.tags), draws, 1)
                ELSE [ok |-> TRUE, db |-> db0]
  IN IF ~body.ok THEN Refused(MSG_P2_INVALID)
     ELSE IF ~AnyTruthy(data) THEN Refused(MSG_P2_NO_FIELD)
     ELSE IF task_id \notin DOMAIN tasks THEN Missing(task_id)
     ELSE IF \E c \in NotNullable : IsNull(data[c]) THEN Failed(now)
     ELSE IF ~linked.ok THEN Failed(now)
     ELSE R2("ok", MSG_NONE, task_id, linked.db, now)

\* a delete_task that also drops the tags no task is linked to any more
delete_task2_orphans(task_id) ==
  IF task_id \notin DOMAIN tasks THEN Missing(task_id)
  ELSE LET links == {l \in task_tags : l[1] # task_id}
           used == {l[2] : l \in links}
       IN R2("ok", MSG_NONE, task_id,
             [DB EXCEPT !.tasks = Remove(tasks, task_id),
                        !.task_tags = links,
                        !.tags = [t \in DOMAIN tags \cap used |-> tags[t]]],
             now)

\* DELETE /tasks/{id}: TaskService.delete_task; the rows of task_tags of the
\* task go with it, the tags stay
delete_task2(task_id) ==
  IF task_id \notin DOMAIN tasks THEN Missing(task_id)
  ELSE R2("ok", MSG_NONE, task_id,
          [DB EXCEPT !.tasks = Remove(tasks, task_id),
                     !.task_tags = {l \in task_tags : l[1] # task_id}],
          now)

\* TagCreate: name Field(min_length=1, max_length=50) on the string as sent,
\* then name_not_empty, which returns v.strip().lower(); color max_length=7
MAX_TAG_NAME_LENGTH == 50

TagCreate(name) ==
  IF StrLen(name) < 1 \/ StrLen(name) > MAX_TAG_NAME_LENGTH THEN [ok |-> FALSE, name |-> name]
  ELSE IF strip(name) = <<>> THEN [ok |-> FALSE, name |-> name]
  ELSE [ok |-> TRUE, name |-> lower(strip(name))]

\* POST /tags: TagCreate, then TagService.create_tag (color: None or Some(c))
create_tag(name, color, draw) ==
  LET body == TagCreate(name)
      found == TagsNamed(DB, body.name)
      tag_id == tag_pk
      tag == [id |-> tag_id, name |-> lower(body.name),
              color |-> IF color = None \/ color = Some("") THEN draw ELSE color[1]]
  IN IF ~body.ok THEN Refused(MSG_P2_INVALID)
     ELSE IF Cardinality(found) > 1 THEN Failed(now)
     ELSE IF found # {} THEN R2("ok", MSG_NONE, CHOOSE t \in found : TRUE, DB, now)
     ELSE R2("ok", MSG_NONE, tag_id,
             [DB EXCEPT !.tags = Put(tags, tag_id, tag), !.tag_pk = tag_pk + 1], now)

\* Characters in code point order, for the comparison of strings
Chars == <<" ", "A", "B", "a", "b", "c", "d", "e", "f", "g", "h", "i", "j", "k", "l", "m",
           "n", "o", "p", "q", "r", "s", "t", "u", "v", "w", "x", "y", "z">>

CharOrd(c) == CHOOSE i \in 1..Len(Chars) : Chars[i] = c

\* s < t, character by character
RECURSIVE StrLess(_, _)
StrLess(s, t) ==
  IF t = <<>> THEN FALSE
  ELSE IF s = <<>> THEN TRUE
  ELSE LET c == s[1][1]
           n == s[1][2]
           d == t[1][1]
           m == t[1][2]
       IN IF c # d THEN CharOrd(c) < CharOrd(d)
          ELSE IF n = m THEN StrLess(Tail(s), Tail(t))
          ELSE IF n < m THEN StrLess(Tail(s), << <<d, m - n>> >> \o Tail(t))
          ELSE StrLess(<< <<c, n - m>> >> \o Tail(s), Tail(t))

\* PriorityEnum: the value stored in column tasks.priority
PriorityValue(p) ==
  CASE p = "high" -> Str(<<"h", "i", "g", "h">>)
    [] p = "medium" -> Str(<<"m", "e", "d", "i", "u", "m">>)
    [] p = "low" -> Str(<<"l", "o", "w">>)

\* a WHERE clause without the filter on completed
Matches_any_status(task_id, status, priority) ==
  priority # None => tasks[task_id].priority = priority[1]

\* list_tasks: the WHERE clauses on the columns of tasks
Matches(task_id, status, priority) ==
  LET task == tasks[task_id] IN
  /\ status = "active" => ~task.completed
  /\ status = "completed" => task.completed
  /\ priority # None => task.priority = priority[1]

\* list_tasks: the rows of the FROM clause that pass WHERE, as <<task, tag>>:
\* one row per task (tag 0) without a tag filter; with one,
\* query.join(TaskTag).join(Tag).where(func.lower(Tag.name).in_(...)) gives
\* one row per link of the task to a named tag
Joined(status, priority, tag_names) ==
  IF tag_names = <<>>
  THEN {<<t, 0>> : t \in {u \in DOMAIN tasks : Matches(u, status, priority)}}
  ELSE {l \in task_tags :
          /\ l[1] \in DOMAIN tasks
          /\ l[2] \in DOMAIN tags
          /\ Matches(l[1], status, priority)
          /\ \E k \in 1..Len(tag_names) : lower(tags[l[2]].name) = lower(tag_names[k])}

\* a query that keeps every joined row
distinct_skipped(rows) == rows

\* .distinct(): SELECT DISTINCT over the columns of tasks
distinct(rows) == {<<r[1], 0>> : r \in rows}

\* list_tasks: the ORDER BY clause; a sorts strictly before b
SortsBefore(a, b, sort_by) ==
  CASE sort_by = "created_asc" -> a.created_at < b.created_at
    [] sort_by = "priority_desc" ->
         StrLess(PriorityValue(b.priority), PriorityValue(a.priority))
    [] sort_by = "due_asc" ->
         IF a.due_date = None THEN FALSE
         ELSE IF b.due_date = None THEN TRUE
         ELSE a.due_date[1] < b.due_date[1]
    [] sort_by = "title_asc" -> StrLess(a.title, b.title)
    [] OTHER -> a.created_at > b.created_at

\* the orders in which the database may return the rows S: every order that
\* agrees with ORDER BY; rows equal on the sort key come in any order
Orderings(S, sort_by) ==
  LET n == Cardinality(S) IN
  {q \in [1..n -> S] :
     /\ \A i, j \in 1..n : i # j => q[i] # q[j]
     /\ \A i, j \in 1..n :
          i < j => ~SortsBefore(tasks[q[j][1]], tasks[q[i][1]], sort_by)}

\* LIMIT limit OFFSET offset
Page(q, limit, offset) ==
  LET hi == IF offset + limit < Len(q) THEN offset + limit ELSE Len(q)
  IN [i \in 1..(IF hi > offset THEN hi - offset ELSE 0) |-> q[offset + i]]

\* result.scalars().unique().all(): the tasks of the rows, each object once
RECURSIVE unique(_)
unique(q) ==
  IF q = <<>> THEN <<>>
  ELSE LET r == unique(SubSeq(q, 1, Len(q) - 1))
           t == q[Len(q)][1]
       IN IF \E i \in 1..Len(r) : r[i] = t THEN r ELSE Append(r, t)

\* GET /tasks: TaskService.list_tasks; every (ids, total) a call may return
list_tasks(status, priority, tag_names, sort_by, limit, offset) ==
  LET rows == Joined(status, priority, tag_names)
      S == IF tag_names = <<>> THEN rows ELSE distinct(rows)
  IN {[tasks |-> unique(Page(q, limit, offset)), total |-> Cardinality(S)] :
        q \in Orderings(S, sort_by)}

(***************************************************************************)
(* Inputs of phase 2.                                                      *)
(***************************************************************************)
\* what random.choice(colors) may return
Palette == {colors[i] : i \in 1..Len(colors)}

N_a == Rep("a", 1)
N_A == Rep("A", 1)
N_sp_a == Cat(Rep(" ", 1), Rep("a", 1))
N_b == Rep("b", 1)

TagNames == {N_a, N_A, N_sp_a, N_b}

D_one == Rep("d", 1)

\* random.choice for each name of a tag list: the draws the actions take
Draws == {<<colors[1], colors[2]>>}

CReq(title, description, priority, due_date, tag_names) ==
  [title |-> title, description |-> description, priority |-> priority,
   due_date |-> due_date, tags |-> tag_names]

CreateReqs ==
  {CReq(T_a, UNSET, UNSET, UNSET, <<>>),
   CReq(T_a, UNSET, Val("high"), UNSET, <<>>),
   CReq(T_a, UNSET, Val("low"), UNSET, <<>>),
   CReq(T_pad, Val(D_one), Val("high"), Val(1), <<N_a>>),
   CReq(T_max, UNSET, UNSET, UNSET, <<N_A>>),
   CReq(T_a, UNSET, UNSET, UNSET, <<N_sp_a>>),
   CReq(T_a, UNSET, UNSET, UNSET, <<N_a, N_b>>),
   CReq(T_a, UNSET, UNSET, UNSET, <<N_a, N_A>>),
   CReq(T_padmax, UNSET, UNSET, UNSET, <<>>),
   CReq(T_blank, UNSET, UNSET, UNSET, <<>>),
   CReq(T_a, Val(D_long), UNSET, UNSET, <<>>)}

U_none ==
  [title |-> UNSET, description |-> UNSET, priority |-> UNSET, completed |-> UNSET,
   due_date |-> UNSET, tags |-> UNSET]

Only(field, f) == [U_none EXCEPT ![field] = f]

\* bodies that supply one field
OneFieldReqs ==
  {Only("title", Val(T_max)), Only("title", Val(T_pad)), Only("title", NULL),
   Only("title", Val(T_padmax)),
   Only("description", Val(D_empty)), Only("description", Val(D_one)),
   Only("description", Val(D_long)),
   Only("priority", Val("low")), Only("priority", Val("medium")),
   Only("completed", Val(TRUE)), Only("completed", Val(FALSE)),
   Only("due_date", Val(2)), Only("due_date", NULL),
   Only("tags", Val(<<>>)), Only("tags", Val(<<N_a>>)), Only("tags", Val(<<N_sp_a>>)),
   Only("tags", Val(<<N_b, N_A>>)), Only("tags", Val(<<N_a, N_A>>)), Only("tags", NULL)}

UpdateReqs ==
  {U_none} \cup OneFieldReqs \cup
  {[U_none EXCEPT !.title = Val(T_max), !.completed = Val(TRUE)],
   [U_none EXCEPT !.completed = Val(FALSE), !.tags = Val(<<N_b>>)]}

\* the bodies the requests of a behaviour carry: the properties range over
\* CreateReqs and UpdateReqs in every state these requests lead to
SentCreateReqs ==
  {CReq(T_a, UNSET, UNSET, UNSET, <<>>),
   CReq(T_a, UNSET, Val("high"), UNSET, <<>>),
   CReq(T_pad, Val(D_one), Val("high"), Val(1), <<N_a>>),
   CReq(T_a, UNSET, UNSET, UNSET, <<N_sp_a>>),
   CReq(T_a, UNSET, UNSET, UNSET, <<N_a, N_b>>),
   CReq(T_padmax, UNSET, UNSET, UNSET, <<>>)}

SentUpdateReqs ==
  {U_none,
   Only("title", Val(T_max)), Only("title", NULL),
   Only("description", Val(D_empty)), Only("description", Val(D_one)),
   Only("priority", Val("low")),
   Only("completed", Val(TRUE)), Only("completed", Val(FALSE)),
   Only("due_date", Val(2)),
   Only("tags", Val(<<N_a>>)), Only("tags", Val(<<N_sp_a>>)),
   Only("tags", Val(<<N_b, N_A>>)),
   [U_none EXCEPT !.completed = Val(FALSE), !.tags = Val(<<N_b>>)]}

\* the identifiers a caller names: those handed out so far and the next one
CallerIds2 == 1..task_pk

Statuses == {"all", "active", "completed"}

SortKeys == {"created_desc", "created_asc", "priority_desc", "due_asc", "title_asc"}

(***************************************************************************)
(* Phase 2 actions: one request.                                           *)
(***************************************************************************)
Step2(r) ==
  /\ phase = 2
  /\ r.now <= MaxClock
  /\ IF r.db # DB
     THEN writes < MaxCommits /\ writes' = writes + 1
     ELSE writes' = writes
  /\ tasks' = r.db.tasks
  /\ tags' = r.db.tags
  /\ task_tags' = r.db.task_tags
  /\ task_pk' = r.db.task_pk
  /\ tag_pk' = r.db.tag_pk
  /\ now' = r.now
  /\ UNCHANGED <<phase, p1vars, history, tvars, svars>>

CreateTask == \E req \in SentCreateReqs, draws \in Draws, dt \in {0, 1} :
                Step2(create_task(req, draws, dt))

GetTask == \E i \in CallerIds2 : Step2(get_task(i))

UpdateTask == \E i \in CallerIds2, req \in SentUpdateReqs, draws \in Draws :
                Step2(update_task2(i, req, draws))

DeleteTask == \E i \in CallerIds2 : Step2(delete_task2(i))

CreateTag == \E name \in TagNames \cup {T_blank}, color \in {None, Some("#000000")} :
               /\ color # None => name = N_b
               /\ Step2(create_tag(name, color, colors[3]))

ListTasks == \E sk \in SortKeys :
               /\ list_tasks("all", None, <<>>, sk, 100, 0) # {}
               /\ Step2(R2("ok", MSG_NONE, 0, DB, now))

\* the wall clock advances between two calls
Tick ==
  /\ now < MaxClock
  /\ now' = now + 1
  /\ UNCHANGED <<phase, p1vars, p2vars, writes, history, tvars, svars>>

(***************************************************************************)
(* Specification.                                                          *)
(***************************************************************************)
Init ==
  /\ phase \in {1, 2}
  /\ now = 1
  /\ storage = <<>>
  /\ next_id = 1
  /\ tasks = <<>>
  /\ tags = <<>>
  /\ task_tags = {}
  /\ task_pk = 1
  /\ tag_pk = 1
  /\ writes = 0
  /\ ever = {}
  /\ deleted = {}
  /\ heap = <<>>
  /\ keys = {}
  /\ threads = [t \in Threads |-> Idle]
  /\ origin = <<>>
  /\ sessions = [s \in Sessions |-> NoSession]
  /\ log = <<>>

Next ==
  \/ Tick
  \/ Add
  \/ Get
  \/ Update
  \/ Delete
  \/ Complete
  \/ Uncomplete
  \/ GetAll
  \/ Command
  \/ CreateTask
  \/ GetTask
  \/ UpdateTask
  \/ DeleteTask
  \/ CreateTag
  \/ ListTasks

Spec == Init /\ [][Next]_vars

(***************************************************************************)
(* The phase 1 service called from several threads.  TaskService and       *)
(* TaskRepository take no lock, so the statements of two calls interleave; *)
(* one step below is one statement of task_service.py that reads or writes *)
(* what the threads share (the dict _storage and the Task dicts in it).    *)
(* A Task dict is shared by reference: get_task_by_id returns the dict     *)
(* that _storage holds, and an assignment to task[...] is seen by every    *)
(* holder of it.                                                           *)
(***************************************************************************)
Call(op, task_id, title, description) ==
  [pc |-> "get", op |-> op, task_id |-> task_id, title |-> title,
   description |-> description, res |-> "none"]

\* the calls the threads make on task i
ThreadCalls(i) ==
  {Call("complete", i, None, None), Call("uncomplete", i, None, None),
   Call("delete", i, None, None),
   Call("update", i, Some(T_max), None), Call("update", i, None, Some(D_max)),
   Call("update", i, Some(T_pad), Some(D_one))}

Finish(t, res) == threads' = [threads EXCEPT ![t].pc = "done", ![t].res = res]

Goto(t, pc) == threads' = [threads EXCEPT ![t].pc = pc]

\* the main thread, before it starts the others: add_task, or add_task and
\* complete_task
MainAdd ==
  /\ phase = 1
  /\ \A t \in Threads : threads[t].pc = "idle"
  /\ Cardinality(DOMAIN heap) < MaxThreadTasks
  /\ \E done \in BOOLEAN :
       LET task_id == Cardinality(DOMAIN heap) + 1
           task == [id |-> task_id, title |-> T_a, description |-> D_empty,
                    completed |-> done, created_at |-> now, updated_at |-> now]
       IN /\ heap' = Put(heap, task_id, task)
          /\ keys' = keys \cup {task_id}
          /\ origin' = Put(origin, task_id, task)
  /\ UNCHANGED <<phase, now, p1vars, p2vars, writes, history, svars, threads>>

\* a thread enters update_task, complete_task, uncomplete_task or delete_task
Begin(t) ==
  /\ phase = 1
  /\ threads[t].pc = "idle"
  /\ \E i \in DOMAIN heap : \E c \in ThreadCalls(i) : threads' = [threads EXCEPT ![t] = c]
  /\ UNCHANGED <<phase, now, p1vars, p2vars, writes, history, svars, heap, keys, origin>>

\* task = self.get_task_by_id(task_id): find_by_id is _storage.get
GetTaskById(t) ==
  LET c == threads[t] IN
  /\ c.pc = "get"
  /\ IF c.task_id \notin keys THEN Finish(t, "TaskNotFoundError")
     ELSE threads' = [threads EXCEPT
                        ![t].pc = CASE c.op = "update" ->
                                         (IF c.title # None THEN "title" ELSE "description")
                                    [] c.op = "delete" -> "contains"
                                    [] OTHER -> "completed"]
  /\ UNCHANGED <<phase, now, p1vars, p2vars, writes, history, svars, heap, keys, origin>>

\* task["title"] = self._validate_title(title)
SetTitle(t) ==
  LET c == threads[t]
      tv == validate_title(c.title[1])
  IN /\ c.pc = "title"
     /\ IF ~tv.ok THEN Finish(t, "ValidationError") /\ heap' = heap
        ELSE /\ heap' = [heap EXCEPT ![c.task_id].title = tv.value]
             /\ Goto(t, IF c.description # None THEN "description" ELSE "updated")
     /\ UNCHANGED <<phase, now, p1vars, p2vars, writes, history, svars, keys, origin>>

\* task["description"] = self._validate_description(description)
SetDescription(t) ==
  LET c == threads[t]
      dv == validate_description(c.description[1])
  IN /\ c.pc = "description"
     /\ IF ~dv.ok THEN Finish(t, "ValidationError") /\ heap' = heap
        ELSE /\ heap' = [heap EXCEPT ![c.task_id].description = dv.value]
             /\ Goto(t, "updated")
     /\ UNCHANGED <<phase, now, p1vars, p2vars, writes, history, svars, keys, origin>>

\* task["completed"] = True (complete_task) or False (uncomplete_task)
SetCompleted(t) ==
  LET c == threads[t] IN
  /\ c.pc = "completed"
  /\ heap' = [heap EXCEPT ![c.task_id].completed = (c.op = "complete")]
  /\ Goto(t, "updated")
  /\ UNCHANGED <<phase, now, p1vars, p2vars, writes, history, svars, keys, origin>>

\* task["updated_at"] = self._generate_timestamp()
SetUpdatedAt(t) ==
  LET c == threads[t] IN
  /\ c.pc = "updated"
  /\ heap' = [heap EXCEPT ![c.task_id].updated_at = now]
  /\ Goto(t, "store")
  /\ UNCHANGED <<phase, now, p1vars, p2vars, writes, history, svars, keys, origin>>

\* return self.repository.update(task_id, task): _storage[task_id] = task
RepositoryUpdate(t) ==
  LET c == threads[t] IN
  /\ c.pc = "store"
  /\ keys' = keys \cup {c.task_id}
  /\ Finish(t, "ok")
  /\ UNCHANGED <<phase, now, p1vars, p2vars, writes, history, svars, heap, origin>>

\* repository.delete: if task_id in self._storage
RepositoryDeleteTest(t) ==
  LET c == threads[t] IN
  /\ c.pc = "contains"
  /\ IF c.task_id \in keys THEN Goto(t, "del") ELSE Finish(t, "ok")
  /\ UNCHANGED <<phase, now, p1vars, p2vars, writes, history, svars, heap, keys, origin>>

\* repository.delete: del self._storage[task_id], a KeyError when the key
\* has gone since the test
RepositoryDeleteDel(t) ==
  LET c == threads[t] IN
  /\ c.pc = "del"
  /\ IF c.task_id \in keys
     THEN keys' = keys \ {c.task_id} /\ Finish(t, "ok")
     ELSE keys' = keys /\ Finish(t, "KeyError")
  /\ UNCHANGED <<phase, now, p1vars, p2vars, writes, history, svars, heap, origin>>

InitThreads == Init /\ phase = 1

NextThreads ==
  \/ Tick
  \/ MainAdd
  \/ \E t \in Threads : Begin(t)
  \/ \E t \in Threads : GetTaskById(t)
  \/ \E t \in Threads : SetTitle(t)
  \/ \E t \in Threads : SetDescription(t)
  \/ \E t \in Threads : SetCompleted(t)
  \/ \E t \in Threads : SetUpdatedAt(t)
  \/ \E t \in Threads : RepositoryUpdate(t)
  \/ \E t \in Threads : RepositoryDeleteTest(t)
  \/ \E t \in Threads : RepositoryDeleteDel(t)

SpecThreads == InitThreads /\ [][NextThreads]_vars

(***************************************************************************)
(* Phase 1, add_task called by two threads.  The service and the           *)
(* repository take no lock; a step is one statement of generate_id or the  *)
(* assignment of create.  threads[t].task_id holds the local current_id.   *)
(***************************************************************************)
\* a thread enters add_task: the two validations (titles: one per thread,
\* and a blank one)
BeginAdd(t) ==
  /\ phase = 1
  /\ threads[t].pc = "idle"
  /\ \E title \in {IF t = 1 THEN T_a ELSE T_max, T_blank}, d \in {D_empty, D_one} :
       LET tv == validate_title(title)
           dv == validate_description(d)
       IN threads' = [threads EXCEPT ![t] =
            [Call("add", 0, Some(tv.value), Some(dv.value)) EXCEPT
               !.pc = IF tv.ok /\ dv.ok THEN "read" ELSE "done",
               !.res = IF tv.ok /\ dv.ok THEN "none" ELSE "ValidationError"]]
  /\ UNCHANGED <<phase, now, p1vars, p2vars, writes, history, svars, heap, keys, origin>>

\* generate_id: current_id = self._next_id
GenerateIdRead(t) ==
  /\ threads[t].pc = "read"
  /\ threads' = [threads EXCEPT ![t].pc = "increment", ![t].task_id = next_id]
  /\ UNCHANGED <<phase, now, p1vars, p2vars, writes, history, svars, heap, keys, origin>>

\* generate_id: self._next_id += 1
GenerateIdIncrement(t) ==
  /\ threads[t].pc = "increment"
  /\ next_id' = generate_id_next(next_id)
  /\ Goto(t, "create")
  /\ UNCHANGED <<phase, now, storage, p2vars, writes, history, svars, heap, keys, origin>>

\* add_task: the timestamp, the Task dict, and repository.create:
\* self._storage[task["id"]] = task
RepositoryCreate(t) ==
  LET c == threads[t]
      task == [id |-> c.task_id, title |-> c.title[1], description |-> c.description[1],
               completed |-> FALSE, created_at |-> now, updated_at |-> now]
  IN /\ c.pc = "create"
     /\ storage' = Put(storage, c.task_id, task)
     /\ Finish(t, "ok")
     /\ UNCHANGED <<phase, now, next_id, p2vars, writes, history, svars, heap, keys, origin>>

NextCreators ==
  \/ Tick
  \/ \E t \in Threads : BeginAdd(t)
  \/ \E t \in Threads : GenerateIdRead(t)
  \/ \E t \in Threads : GenerateIdIncrement(t)
  \/ \E t \in Threads : RepositoryCreate(t)

SpecCreators == InitThreads /\ [][NextCreators]_vars

(***************************************************************************)
(* Phase 2, requests served at the same time.  Every request has its own   *)
(* AsyncSession (get_session) and so its own transaction: the rows it      *)
(* flushes are read by its own statements and by no other session until    *)
(* session.commit(); a request that raises never commits and the session   *)
(* rolls back when get_session closes it.  Primary keys are drawn from the *)
(* tables' sequences when a row is flushed.  A step is what a request does *)
(* between two points where it awaits the database and other requests run. *)
(* Two updates of one task at the same time are left out: how they are     *)
(* ordered is the row locking of the database engine.                      *)
(***************************************************************************)
\* the rows the statements of session s read: the committed rows and the
\* rows of its own transaction
View(s) ==
  LET x == sessions[s] IN
  [tasks |-> [k \in DOMAIN tasks \cup DOMAIN x.new_tasks |->
                IF k \in DOMAIN x.new_tasks THEN x.new_tasks[k] ELSE tasks[k]],
   tags |-> [k \in DOMAIN tags \cup DOMAIN x.new_tags |->
               IF k \in DOMAIN x.new_tags THEN x.new_tags[k] ELSE tags[k]],
   task_tags |-> (task_tags \ x.gone_links) \cup x.new_links,
   task_pk |-> task_pk,
   tag_pk |-> tag_pk]

\* the requests begun so far
Started == Len(log) + Cardinality({s \in Sessions : sessions[s].pc # "idle"})

\* a flush that other sessions read at once, as if it were a commit
flush_autocommit(table, row_id, row) == Put(table, row_id, row)

\* await session.flush(): the committed table other sessions read stays as
\* it is
flush(table, row_id, row) == table

\* the request of session s ends with outcome res; get_session closes the
\* session, which drops what was not committed
End(s, op, task_id, names, res) ==
  /\ sessions' = [sessions EXCEPT ![s] = NoSession]
  /\ log' = Append(log, [op |-> op, task_id |-> task_id, names |-> names, res |-> res])

\* the tag lists the requests served at the same time carry
SessionTagLists == {<<>>, <<N_a>>, <<N_a, N_b>>, <<N_a, N_A>>}

\* the PATCH bodies the requests served at the same time carry
SessionUpdateReqs ==
  {Only("tags", Val(<<N_a>>)), Only("tags", Val(<<N_b>>)),
   [U_none EXCEPT !.title = Val(T_pad), !.tags = Val(<<>>)]}

\* create_task up to its first flush: the task row is written
CreateTaskFlush(s) == \E names \in SessionTagLists :
  LET body == TaskCreate(CReq(T_a, UNSET, UNSET, UNSET, names))
      task_id == task_pk
      task == [id |-> task_id, title |-> body.title, description |-> body.description,
               completed |-> FALSE, priority |-> body.priority, due_date |-> body.due_date,
               created_at |-> now, updated_at |-> now]
  IN /\ phase = 2
     /\ sessions[s].pc = "idle"
     /\ Started < MaxRequests
     /\ body.ok
     /\ tasks' = flush(tasks, task_id, task)
     /\ task_pk' = task_pk + 1
     /\ sessions' = [sessions EXCEPT ![s] =
                       [NoSession EXCEPT !.pc = IF body.tags = <<>> THEN "commit" ELSE "tag",
                                         !.op = "create_task", !.task_id = task_id,
                                         !.names = body.tags, !.i = 1,
                                         !.new_tasks = Put(<<>>, task_id, task)]]
     /\ UNCHANGED <<phase, now, p1vars, tags, task_tags, tag_pk, writes, history, tvars, log>>

\* update_task up to the delete of the task's links
UpdateTaskSelect(s) == \E task_id \in CallerIds2, req \in SessionUpdateReqs :
  LET body == TaskUpdate(req)
      names == ValueOf(body.data.tags)
  IN /\ phase = 2
     /\ sessions[s].pc = "idle"
     /\ Started < MaxRequests
     /\ body.ok
     /\ AnyTruthy(body.data)
     /\ \A o \in Sessions \ {s} :
          ~(sessions[o].op = "update_task" /\ sessions[o].task_id = task_id)
     /\ IF task_id \notin DOMAIN tasks
        THEN End(s, "update_task", task_id, names, "TaskNotFoundError")
        ELSE /\ sessions' = [sessions EXCEPT ![s] =
                  [NoSession EXCEPT
                     !.pc = IF names = <<>> THEN "commit" ELSE "tag",
                     !.op = "update_task", !.task_id = task_id,
                     !.names = names, !.i = 1,
                     !.new_tasks = Put(<<>>, task_id,
                                       [SetFields(tasks[task_id], body.data)
                                          EXCEPT !.updated_at = now]),
                     !.gone_links = {l \in task_tags : l[1] = task_id}]]
             /\ UNCHANGED log
     /\ UNCHANGED <<phase, now, p1vars, p2vars, writes, history, tvars>>

\* one round of the tag loop of create_task and update_task: select the tag,
\* create and flush it when there is none, link it to the task
ResolveTag(s) ==
  LET x == sessions[s]
      v == View(s)
      name == x.names[x.i]
      found == TagsNamed(v, name)
      tag_id == IF found = {} THEN tag_pk ELSE CHOOSE t \in found : TRUE
      tag == [id |-> tag_id, name |-> lower(name), color |-> colors[1]]
  IN /\ x.pc = "tag"
     /\ IF Cardinality(found) > 1
        THEN /\ End(s, x.op, x.task_id, x.names, "StorageError")
             /\ UNCHANGED <<tags, tag_pk>>
        ELSE /\ tags' = IF found = {} THEN flush(tags, tag_id, tag) ELSE tags
             /\ tag_pk' = IF found = {} THEN tag_pk + 1 ELSE tag_pk
             /\ IF <<x.task_id, tag_id>> \in v.task_tags
                THEN End(s, x.op, x.task_id, x.names, "StorageError")
                ELSE /\ sessions' = [sessions EXCEPT ![s] =
                          [x EXCEPT !.pc = IF x.i = Len(x.names) THEN "commit" ELSE "tag",
                                    !.i = x.i + 1,
                                    !.new_tags = IF found = {}
                                                 THEN Put(x.new_tags, tag_id, tag)
                                                 ELSE x.new_tags,
                                    !.new_links = x.new_links \cup {<<x.task_id, tag_id>>}]]
                     /\ UNCHANGED log
     /\ UNCHANGED <<phase, now, p1vars, tasks, task_tags, task_pk, writes, history, tvars>>

\* await session.commit() of create_task and update_task
Commit(s) ==
  /\ sessions[s].pc = "commit"
  /\ tasks' = View(s).tasks
  /\ tags' = View(s).tags
  /\ task_tags' = View(s).task_tags
  /\ End(s, sessions[s].op, sessions[s].task_id, sessions[s].names, "ok")
  /\ UNCHANGED <<phase, now, p1vars, task_pk, tag_pk, writes, history, tvars>>

\* TagService.create_tag up to its select
CreateTagSelect(s) == \E name \in {N_a, N_A, N_b} :
  LET body == TagCreate(name)
      found == TagsNamed(DB, body.name)
  IN /\ phase = 2
     /\ sessions[s].pc = "idle"
     /\ Started < MaxRequests
     /\ body.ok
     /\ IF Cardinality(found) > 1
        THEN End(s, "create_tag", 0, <<body.name>>, "StorageError")
        ELSE IF found # {}
        THEN End(s, "create_tag", 0, <<body.name>>, "ok")
        ELSE /\ sessions' = [sessions EXCEPT ![s] =
                  [NoSession EXCEPT !.pc = "insert", !.op = "create_tag",
                                    !.names = <<body.name>>]]
             /\ UNCHANGED log
     /\ UNCHANGED <<phase, now, p1vars, p2vars, writes, history, tvars>>

\* TagService.create_tag: session.add(tag), await session.commit()
CreateTagCommit(s) ==
  LET x == sessions[s]
      tag_id == tag_pk
      tag == [id |-> tag_id, name |-> lower(x.names[1]), color |-> colors[3]]
  IN /\ x.pc = "insert"
     /\ tags' = Put(tags, tag_id, tag)
     /\ tag_pk' = tag_pk + 1
     /\ End(s, x.op, 0, x.names, "ok")
     /\ UNCHANGED <<phase, now, p1vars, tasks, task_tags, task_pk, writes, history, tvars>>

InitSessions == Init /\ phase = 2

NextSessions ==
  \/ \E s \in Sessions : CreateTaskFlush(s)
  \/ \E s \in Sessions : UpdateTaskSelect(s)
  \/ \E s \in Sessions : ResolveTag(s)
  \/ \E s \in Sessions : Commit(s)
  \/ \E s \in Sessions : CreateTagSelect(s)
  \/ \E s \in Sessions : CreateTagCommit(s)

SpecSessions == InitSessions /\ [][NextSessions]_vars

(***************************************************************************)
(* Phase 2, the queries of list_tasks over the stores requests leave.      *)
(* The behaviours start from a store of up to MaxListed tasks, as earlier  *)
(* requests left it: identifiers in the order of creation, created_at      *)
(* never after updated_at, tag names in lower case.                        *)
(***************************************************************************)
\* the rows of table tasks a store is drawn from, each with the tags linked
\* to it
ListRows ==
  {[title |-> T_a, description |-> D_empty, completed |-> FALSE, priority |-> "medium",
    due_date |-> None, created_at |-> 1, updated_at |-> 1, tags |-> {}],
   [title |-> T_a, description |-> D_empty, completed |-> TRUE, priority |-> "high",
    due_date |-> Some(2), created_at |-> 1, updated_at |-> 2, tags |-> {1}],
   [title |-> T_a, description |-> D_one, completed |-> FALSE, priority |-> "high",
    due_date |-> Some(2), created_at |-> 1, updated_at |-> 1, tags |-> {2}],
   [title |-> T_max, description |-> D_empty, completed |-> TRUE, priority |-> "low",
    due_date |-> Some(1), created_at |-> 1, updated_at |-> 2, tags |-> {1, 2}],
   [title |-> T_max, description |-> D_empty, completed |-> FALSE, priority |-> "low",
    due_date |-> Some(1), created_at |-> 2, updated_at |-> 2, tags |-> {1, 2}],
   [title |-> T_max, description |-> D_one, completed |-> TRUE, priority |-> "medium",
    due_date |-> None, created_at |-> 2, updated_at |-> 2, tags |-> {2}]}

\* the rows of table tags of these stores
ListTags ==
  (1 :> [id |-> 1, name |-> N_a, color |-> colors[1]]) @@
  (2 :> [id |-> 2, name |-> N_b, color |-> colors[2]])

\* the tag filters of the queries
TagFilters == {<<>>, <<N_a>>, <<N_A>>, <<N_b, N_A>>, <<N_a, N_a>>, <<N_sp_a>>}

\* the limits and offsets of the queries (limit: Query(100, le=1000, ge=1),
\* offset: Query(0, ge=0))
Limits == {1, 2, 100, 1000}

Offsets == 0..(MaxListed + 1)

InitList ==
  \E n \in 0..MaxListed : \E rows \in [1..n -> ListRows] :
    /\ \A i, j \in 1..n : i < j => rows[i].created_at <= rows[j].created_at
    /\ phase = 2
    /\ now = 2
    /\ storage = <<>>
    /\ next_id = 1
    /\ tasks = [i \in 1..n |->
                  [id |-> i, title |-> rows[i].title, description |-> rows[i].description,
                   completed |-> rows[i].completed, priority |-> rows[i].priority,
                   due_date |-> rows[i].due_date, created_at |-> rows[i].created_at,
                   updated_at |-> rows[i].updated_at]]
    /\ tags = ListTags
    /\ task_tags = {<<i, g>> : i \in 1..n, g \in {1, 2}} \cap
                   UNION {{<<i, g>> : g \in rows[i].tags} : i \in 1..n}
    /\ task_pk = n + 1
    /\ tag_pk = 3
    /\ writes = 0
    /\ ever = {}
    /\ deleted = {}
    /\ heap = <<>>
    /\ keys = {}
    /\ threads = [t \in Threads |-> Idle]
    /\ origin = <<>>
    /\ sessions = [s \in Sessions |-> NoSession]
    /\ log = <<>>

\* GET /tasks: one page of a query (the properties range over every filter,
\* sort key, limit and offset in each store)
ListTasksPage ==
  \E sk \in SortKeys, offset \in {0, 1} :
    /\ list_tasks("all", None, <<N_a>>, sk, 1, offset) # {}
    /\ Step2(R2("ok", MSG_NONE, 0, DB, now))

NextList ==
  \/ ListTasksPage
  \/ DeleteTask

SpecList == InitList /\ [][NextList]_vars

(***************************************************************************)
(* Properties.  A property about one call is stated over every reachable   *)
(* state and every argument of the call: the operators above give the      *)
(* outcome and the store the call leaves.                                  *)
(***************************************************************************)
\* the tags linked to a task in database db
TagsOf(db, task_id) == {l[2] : l \in {m \in db.task_tags : m[1] = task_id}}

\* the phrase of the "at least one field" rule
AT_LEAST_ONE_FIELD ==
  <<"a", "t", " ", "l", "e", "a", "s", "t", " ", "o", "n", "e", " ", "f", "i", "e",
        "l", "d">>

\* C1: update_task on an existing task is refused as "no field supplied" only
\* when the call supplies no field at all; a call that supplies a field,
\* whatever its value (completed false, an empty description, an empty tag
\* list, a null due date), is not refused for that reason.
C1_NoFieldOnlyWhenNoneSupplied ==
  /\ phase = 1 =>
       \A i \in DOMAIN storage, t \in Opt(Titles), d \in Opt(Descriptions) :
         update_task(i, t, d).msg = MSG_P1_NO_FIELD => (t = None /\ d = None)
  /\ phase = 2 =>
       \A i \in DOMAIN tasks, req \in UpdateReqs, draws \in Draws :
         update_task2(i, req, draws).msg = MSG_P2_NO_FIELD => Supplied(req) = {}

\* the rank of a priority in the order high, medium, low
PriorityRank(p) == CASE p = "high" -> 0 [] p = "medium" -> 1 [] p = "low" -> 2

\* C2: list_tasks sorted by priority_desc returns every high task before
\* every medium task and every medium task before every low task.
C2_PriorityDescOrder ==
  phase = 2 =>
    \A r \in list_tasks("all", None, <<>>, "priority_desc", 100, 0) :
      \A i, j \in 1..Len(r.tasks) :
        i < j => PriorityRank(tasks[r.tasks[i]].priority)
                   <= PriorityRank(tasks[r.tasks[j]].priority)

\* C3: for every title whose trimmed length is between 1 and 200, whatever
\* its length before trimming, create_task succeeds and stores the trimmed
\* title.
C3_TrimmedTitleAccepted ==
  \A t \in Titles :
    (1 <= StrLen(strip(t)) /\ StrLen(strip(t)) <= MAX_TITLE_LENGTH) =>
      /\ phase = 1 =>
           LET r == add_task(t, D_empty)
           IN r.res = "ok" /\ r.storage[r.id].title = strip(t)
      /\ phase = 2 =>
           LET r == create_task(CReq(t, UNSET, UNSET, UNSET, <<>>), <<>>, 0)
           IN r.res = "ok" /\ r.db.tasks[r.id].title = strip(t)

\* C4: a successful update_task changes exactly the supplied fields and the
\* updated timestamp: the identifier, the created timestamp and every field
\* that is not supplied (title, description, priority, completed, due date,
\* tag set) keep their values, and every supplied field takes the supplied
\* value.
C4_PartialUpdateFrame ==
  /\ phase = 1 =>
       \A i \in DOMAIN storage, t \in Opt(Titles), d \in Opt(Descriptions) :
         LET r == update_task(i, t, d) IN
         r.res = "ok" =>
           /\ DOMAIN r.storage = DOMAIN storage
           /\ r.storage[i].id = storage[i].id
           /\ r.storage[i].created_at = storage[i].created_at
           /\ r.storage[i].completed = storage[i].completed
           /\ r.storage[i].title = IF t = None THEN storage[i].title ELSE strip(t[1])
           /\ r.storage[i].description =
                IF d = None THEN storage[i].description ELSE d[1]
           /\ r.storage[i].updated_at = now
  /\ phase = 2 =>
       \A i \in DOMAIN tasks, req \in UpdateReqs, draws \in Draws :
         LET r == update_task2(i, req, draws) IN
         r.res = "ok" =>
           LET old == tasks[i]
               new == r.db.tasks[i]
           IN /\ DOMAIN r.db.tasks = DOMAIN tasks
              /\ new.id = old.id
              /\ new.created_at = old.created_at
              /\ \A c \in (UpdateFields \ {"tags"}) \ Supplied(req) : new[c] = old[c]
              /\ "tags" \notin Supplied(req) =>
                   /\ TagsOf(r.db, i) = TagsOf(DB, i)
                   /\ \A t \in TagsOf(DB, i) : r.db.tags[t] = tags[t]
              /\ HasValue(req.title) => new.title = strip(ValueOf(req.title))
              /\ HasValue(req.description) => new.description = ValueOf(req.description)
              /\ HasValue(req.priority) => new.priority = ValueOf(req.priority)
              /\ HasValue(req.completed) => new.completed = ValueOf(req.completed)
              /\ HasValue(req.due_date) => new.due_date = Some(ValueOf(req.due_date))
              /\ IsNull(req.due_date) => new.due_date = None
              /\ HasValue(req.tags) =>
                   {r.db.tags[t].name : t \in TagsOf(r.db, i)}
                     = {lower(ValueOf(req.tags)[k]) : k \in 1..Len(ValueOf(req.tags))}
              /\ new.updated_at = now

\* a task created with a description, a priority, a due date and a tag has had
\* its title alone replaced
C4_Witness ==
  /\ phase = 2
  /\ \E i \in DOMAIN tasks :
       /\ tasks[i].title = T_max
       /\ tasks[i].description = D_one
       /\ tasks[i].priority = "high"
       /\ tasks[i].due_date = Some(1)
       /\ TagsOf(DB, i) # {}

\* C5: update_task called with no field supplied fails with ValidationError,
\* its message contains "at least one field" (letter case aside), and the
\* store is left unchanged.
C5_NoFieldRejected ==
  /\ phase = 1 =>
       \A i \in CallerIds1 :
         LET r == update_task(i, None, None) IN
         /\ r.res = "ValidationError"
         /\ Contains(LowerText(r.msg), AT_LEAST_ONE_FIELD)
         /\ r.storage = storage
         /\ r.next_id = next_id
  /\ phase = 2 =>
       \A i \in CallerIds2, draws \in Draws :
         LET r == update_task2(i, U_none, draws) IN
         /\ r.res = "ValidationError"
         /\ Contains(LowerText(r.msg), AT_LEAST_ONE_FIELD)
         /\ r.db = DB

\* an existing task with a description and a tag receives an empty PATCH body
C5_Witness ==
  /\ phase = 2
  /\ \E i \in DOMAIN tasks :
       /\ tasks[i].description = D_one
       /\ TagsOf(DB, i) # {}
       /\ update_task2(i, U_none, <<>>).res = "ValidationError"

\* C6: complete_task and uncomplete_task are idempotent: from any state of an
\* existing task the call succeeds, leaves completed true (complete) or false
\* (uncomplete), so a second call leaves the flag as the first did, and
\* changes no field but completed and the updated timestamp.
C6_CompleteIdempotent ==
  phase = 1 =>
    \A i \in DOMAIN storage :
      LET c == complete_task(i)
          u == uncomplete_task(i)
      IN /\ c.res = "ok"
         /\ c.storage = Put(storage, i, [storage[i] EXCEPT !.completed = TRUE,
                                                           !.updated_at = now])
         /\ c.next_id = next_id
         /\ u.res = "ok"
         /\ u.storage = Put(storage, i, [storage[i] EXCEPT !.completed = FALSE,
                                                           !.updated_at = now])
         /\ u.next_id = next_id

\* a task completed at a later time than its creation is completed again
C6_Witness ==
  /\ phase = 1
  /\ \E i \in DOMAIN storage :
       /\ storage[i].completed
       /\ storage[i].updated_at > storage[i].created_at
       /\ complete_task(i).res = "ok"

\* C7: Deleted is terminal: once delete_task(id) has succeeded, the task is
\* absent, every later get_task, update_task (with a valid field),
\* complete_task, uncomplete_task and delete_task on that id fails with
\* TaskNotFoundError carrying that id, and none of those calls makes a task
\* with that id exist again.
C7_DeletedIsTerminal ==
  phase = 1 =>
    \A i \in deleted :
      /\ i \notin DOMAIN storage
      /\ \A r \in {get_task_by_id(i), update_task(i, Some(T_a), None),
                   update_task(i, None, Some(D_max)), update_task(i, Some(T_pad), Some(D_empty)),
                   complete_task(i), uncomplete_task(i), delete_task(i)} :
           /\ r.res = "TaskNotFoundError"
           /\ r.errid = i
           /\ i \notin DOMAIN r.storage
      /\ \A t \in Titles, d \in Descriptions : i \notin DOMAIN add_task(t, d).storage

\* a task was deleted while another one is stored, and a call names it again
C7_Witness ==
  /\ phase = 1
  /\ storage # <<>>
  /\ \E i \in deleted : complete_task(i).res = "TaskNotFoundError"

\* C8: the identifiers returned by successful create_task calls increase
\* strictly, starting at 1: each one is greater than every identifier handed
\* out before, so the identifier of a deleted task is never handed out again.
C8_IdsIncreaseNoReuse ==
  phase = 1 =>
    /\ DOMAIN storage \subseteq ever
    /\ deleted \subseteq ever
    /\ \A t \in Titles, d \in Descriptions :
         LET r == add_task(t, d) IN
         r.res = "ok" =>
           /\ \A k \in ever \cup deleted : k < r.id
           /\ r.id \in DOMAIN r.storage
           /\ ever = {} => r.id = 1

\* the only task was deleted, and the next create_task gets a new identifier
C8_Witness ==
  /\ phase = 1
  /\ deleted = {1}
  /\ storage = <<>>
  /\ add_task(T_a, D_empty).id = 2

\* two names denote the same tag: equal after trimming and lower-casing
SameTag(n, m) == lower(strip(n)) = lower(strip(m))

\* C9: tag resolution is idempotent under case and whitespace variation: at
\* most one tag record exists per trimmed, lower-cased name, and resolving a
\* name that differs from an existing tag's name only in letter case or in
\* surrounding whitespace, through create_task, update_task or create_tag,
\* creates no tag record.
C9_TagResolutionIdempotent ==
  phase = 2 =>
    /\ \A t, u \in DOMAIN tags : SameTag(tags[t].name, tags[u].name) => t = u
    /\ \A n \in TagNames :
         (\E t \in DOMAIN tags : SameTag(tags[t].name, n)) =>
           /\ create_tag(n, None, colors[1]).db.tags = tags
           /\ create_task(CReq(T_a, UNSET, UNSET, UNSET, <<n>>), <<colors[1]>>, 0).db.tags
                = tags
           /\ \A i \in DOMAIN tasks :
                update_task2(i, Only("tags", Val(<<n>>)), <<colors[1]>>).db.tags = tags

\* what the caller sees of a task: None when it is absent
Fields(task) == Some([title |-> task.title, description |-> task.description,
                      completed |-> task.completed])

\* a call run alone on a task that is in state v (None: absent)
RunAlone(c, v) ==
  IF v = None THEN None
  ELSE CASE c.op = "delete" -> None
         [] c.op = "complete" -> Some([v[1] EXCEPT !.completed = TRUE])
         [] c.op = "uncomplete" -> Some([v[1] EXCEPT !.completed = FALSE])
         [] c.op = "update" ->
              Some([v[1] EXCEPT
                      !.title = IF c.title = None THEN @ ELSE strip(c.title[1]),
                      !.description = IF c.description = None THEN @ ELSE c.description[1]])

\* C10: per-task read-modify-write is atomic: when two concurrent calls among
\* update_task, complete_task, uncomplete_task and delete_task on the same
\* task have both returned, the task's state (its fields, or its absence) is
\* the one left by running the two calls one after the other in some order;
\* in particular a task deleted by one caller is not there again.
C10_ReadModifyWriteAtomic ==
  (/\ \A t \in Threads : threads[t].pc = "done"
   /\ threads[1].task_id = threads[2].task_id) =>
    LET i == threads[1].task_id
        before == Fields(origin[i])
        after == IF i \in keys THEN Fields(heap[i]) ELSE None
    IN after \in {RunAlone(threads[2], RunAlone(threads[1], before)),
                  RunAlone(threads[1], RunAlone(threads[2], before))}


\* C11: whatever way requests that resolve the same tag name (create_task,
\* update_task with tags, create_tag) are interleaved, no two tag records of
\* the owner carry the same name.
C11_OneTagPerName ==
  \A t, u \in DOMAIN tags : tags[t].name = tags[u].name => t = u

\* the committed update_task requests of a task
UpdatesOf(task_id) ==
  {k \in 1..Len(log) : /\ log[k].op = "update_task"
                       /\ log[k].task_id = task_id
                       /\ log[k].res = "ok"}

\* C12: create_task is one unit of work.  While the call runs, and after it
\* failed, other readers see neither its task nor a link of it; once it
\* succeeded they see the task with a link for every requested tag name (until
\* an update_task replaces the links).
C12_CreateTaskAtomic ==
  /\ \A s \in Sessions :
       sessions[s].op = "create_task" =>
         /\ sessions[s].task_id \notin DOMAIN tasks
         /\ TagsOf(DB, sessions[s].task_id) = {}
  /\ \A k \in 1..Len(log) :
       log[k].op = "create_task" =>
         IF log[k].res = "ok"
         THEN /\ log[k].task_id \in DOMAIN tasks
              /\ UpdatesOf(log[k].task_id) = {} =>
                   /\ Cardinality(TagsOf(DB, log[k].task_id)) = Len(log[k].names)
                   /\ {tags[t].name : t \in TagsOf(DB, log[k].task_id)}
                        = {lower(log[k].names[i]) : i \in 1..Len(log[k].names)}
         ELSE /\ log[k].task_id \notin DOMAIN tasks
              /\ TagsOf(DB, log[k].task_id) = {}

\* one create_task failed while linking its tags and another one committed
\* a task with two tags
C12_Witness ==
  /\ \E k \in 1..Len(log) : /\ log[k].op = "create_task"
                            /\ log[k].res = "StorageError"
                            /\ log[k].task_id > 0
  /\ \E k \in 1..Len(log) : /\ log[k].op = "create_task"
                            /\ log[k].res = "ok"
                            /\ Len(log[k].names) = 2
                            /\ Cardinality(TagsOf(DB, log[k].task_id)) = 2


\* the tasks of a returned page
Ids(q) == {q[i] : i \in 1..Len(q)}

\* C13: in every store, with any sort key and tag filter, status=active
\* returns exactly the tasks with completed=false and status=completed
\* exactly those with completed=true; the two results are disjoint and their
\* union is the result of status=all.
C13_StatusPartition ==
  phase = 2 =>
    \A sk \in SortKeys, names \in TagFilters :
      \A ra \in list_tasks("active", None, names, sk, 1000, 0),
         rc \in list_tasks("completed", None, names, sk, 1000, 0),
         rall \in list_tasks("all", None, names, sk, 1000, 0) :
        /\ \A t \in Ids(ra.tasks) : ~tasks[t].completed
        /\ \A t \in Ids(rc.tasks) : tasks[t].completed
        /\ Ids(ra.tasks) \cap Ids(rc.tasks) = {}
        /\ Ids(ra.tasks) \cup Ids(rc.tasks) = Ids(rall.tasks)
        /\ names = <<>> =>
             /\ Ids(ra.tasks) = {t \in DOMAIN tasks : ~tasks[t].completed}
             /\ Ids(rc.tasks) = {t \in DOMAIN tasks : tasks[t].completed}
        /\ Len(ra.tasks) = Cardinality(Ids(ra.tasks))
        /\ Len(rc.tasks) = Cardinality(Ids(rc.tasks))

\* a store with an active and a completed task, which the two queries tell
\* apart
C13_Witness ==
  /\ phase = 2
  /\ \E t, u \in DOMAIN tasks : ~tasks[t].completed /\ tasks[u].completed
  /\ \E ra \in list_tasks("active", None, <<>>, "created_desc", 1000, 0),
        rc \in list_tasks("completed", None, <<>>, "created_desc", 1000, 0) :
       ra.tasks # <<>> /\ rc.tasks # <<>>

\* positions lo+1 .. hi of sequence q
Window(q, limit, offset) ==
  SubSeq(q, offset + 1, IF offset + limit < Len(q) THEN offset + limit ELSE Len(q))

\* C14: with S the filtered and sorted sequence of n tasks (the result of the
\* query without a page cut), list_tasks(limit, offset) returns the elements
\* of S at positions offset+1 .. min(offset+limit, n) and total = n.
C14_PaginationWindow ==
  phase = 2 =>
    \A status \in Statuses, sk \in SortKeys, limit \in Limits, offset \in Offsets :
      \A full \in list_tasks(status, None, <<>>, sk, 1000, 0),
         r \in list_tasks(status, None, <<>>, sk, limit, offset) :
        /\ r.tasks = Window(full.tasks, limit, offset)
        /\ r.total = Len(full.tasks)

\* C15: given tag names, list_tasks returns exactly the tasks linked to a tag
\* whose name equals one of them without regard to case, each once, and
\* total counts each of them once.
C15_TagFilterAnyOnce ==
  phase = 2 =>
    \A names \in TagFilters \ {<<>>}, sk \in SortKeys :
      LET want == {t \in DOMAIN tasks :
                     \E g \in TagsOf(DB, t) : \E k \in 1..Len(names) :
                       lower(tags[g].name) = lower(names[k])}
      IN \A r \in list_tasks("all", None, names, sk, 1000, 0) :
           /\ Ids(r.tasks) = want
           /\ Len(r.tasks) = Cardinality(want)
           /\ r.total = Cardinality(want)

\* a task linked to two of the named tags is listed
C15_Witness ==
  /\ phase = 2
  /\ \E t \in DOMAIN tasks :
       /\ TagsOf(DB, t) = {1, 2}
       /\ tags[1].name = N_a /\ tags[2].name = N_b
       /\ \E r \in list_tasks("all", None, <<N_b, N_A>>, "created_desc", 1000, 0) :
            t \in Ids(r.tasks) /\ r.total >= 1


\* the names of the tags of a task in database db
TagNamesOf(db, task_id) == {db.tags[g].name : g \in TagsOf(db, task_id)}

\* C16: when update_task supplies tags, the tags of the task after the call
\* are exactly the tags the supplied names resolve to; an empty list leaves
\* the task with no tags.
C16_TagsReplaced ==
  phase = 2 =>
    \A id \in DOMAIN tasks, req \in UpdateReqs, draws \in Draws :
      (HasValue(req.tags) /\ TaskUpdate(req).ok) =>
        LET names == ValueOf(req.tags)
            r == update_task2(id, req, draws)
        IN /\ r.res = "ok" =>
                TagNamesOf(r.db, id) = {lower(names[k]) : k \in 1..Len(names)}
           /\ names = <<>> => TagsOf(r.db, id) = {}

\* C17: a task returned by a successful create_task has completed=false,
\* priority=medium and description="" when they were not given, and
\* created_at = updated_at, also when the clock advances during the call.
C17_CreateDefaults ==
  /\ phase = 1 =>
       \A t \in Titles, d \in Descriptions :
         LET r == add_task(t, d) IN
         r.res = "ok" =>
           /\ ~r.storage[r.id].completed
           /\ d = D_empty => r.storage[r.id].description = D_empty
           /\ r.storage[r.id].created_at = r.storage[r.id].updated_at
  /\ phase = 2 =>
       \A req \in CreateReqs, draws \in Draws, dt \in {0, 1} :
         LET r == create_task(req, draws, dt) IN
         r.res = "ok" =>
           /\ ~r.db.tasks[r.id].completed
           /\ ~IsSet(req.priority) => r.db.tasks[r.id].priority = "medium"
           /\ ~IsSet(req.description) => r.db.tasks[r.id].description = D_empty
           /\ r.db.tasks[r.id].created_at = r.db.tasks[r.id].updated_at

\* C18: every successful update_task, complete_task and uncomplete_task
\* leaves the task with an updated_at strictly greater than before the call.
C18_UpdatedStrictlyGreater ==
  /\ phase = 1 =>
       \A id \in DOMAIN storage, t \in Opt(Titles), d \in Opt(Descriptions) :
         \A r \in {update_task(id, t, d), complete_task(id), uncomplete_task(id)} :
           r.res = "ok" => r.storage[id].updated_at > storage[id].updated_at
  /\ phase = 2 =>
       \A id \in DOMAIN tasks, req \in UpdateReqs, draws \in Draws :
         LET r == update_task2(id, req, draws) IN
         r.res = "ok" => r.db.tasks[id].updated_at > tasks[id].updated_at

\* every task of the store has updated_at >= created_at
Stamped(store) == \A id \in DOMAIN store : store[id].updated_at >= store[id].created_at

\* the tasks of store old still in store new have the created_at they had
CreatedKept(old, new) ==
  \A id \in DOMAIN old \cap DOMAIN new : new[id].created_at = old[id].created_at

C20_LengthLimits ==
  LET Ds == Descriptions \cup {Cat(D_max, Rep(" ", 1)), Cat(Rep(" ", 1), D_max)}
      Bad(t, d) == \/ strip(t) = <<>>
                   \/ StrLen(strip(t)) > MAX_TITLE_LENGTH
                   \/ StrLen(d) > MAX_DESCRIPTION_LENGTH
  IN /\ phase = 1 =>
          \A t \in Titles, d \in Ds :
            LET r == add_task(t, d) IN
            /\ Bad(t, d) => r.res = "ValidationError" /\ r.storage = storage
            /\ ~Bad(t, d) => /\ r.res = "ok"
                             /\ r.storage[r.id].title = strip(t)
                             /\ r.storage[r.id].description = d
     /\ phase = 2 =>
          \A t \in Titles, d \in Ds, draws \in Draws :
            LET r == create_task(CReq(t, Val(d), UNSET, UNSET, <<>>), draws, 0) IN
            /\ Bad(t, d) => r.res = "ValidationError" /\ r.db = DB
            /\ (~Bad(t, d) /\ t = strip(t)) =>
                 /\ r.res = "ok"
                 /\ r.db.tasks[r.id].title = t
                 /\ r.db.tasks[r.id].description = d

\* a task with a title of 200 characters and a description of 1000 is
\* stored, and a title of 201 characters is refused
C20_Witness ==
  /\ phase = 1
  /\ \E id \in DOMAIN storage :
       /\ StrLen(storage[id].title) = MAX_TITLE_LENGTH
       /\ StrLen(storage[id].description) = MAX_DESCRIPTION_LENGTH
  /\ add_task(T_long, D_empty).res = "ValidationError"
  /\ add_task(T_a, D_long).res = "ValidationError"


\* C21: a create_task that fails validation leaves the stored tasks as they
\* were and allocates no identifier: a successful create_task returns the
\* number of successful creates so far plus one (1 on a fresh store).
C21_FailedCreateAllocatesNothing ==
  /\ phase = 1 =>
       \A t \in Titles, d \in Descriptions :
         LET r == add_task(t, d) IN
         /\ r.res = "ValidationError" => r.storage = storage /\ r.next_id = next_id
         /\ r.res = "ok" => r.id = Cardinality(ever) + 1
  /\ phase = 2 =>
       \A req \in CreateReqs, draws \in Draws, dt \in {0, 1} :
         LET r == create_task(req, draws, dt) IN
         r.res = "ValidationError" => r.db = DB

\* one task was created; a create with a blank title and one with a
\* description that is too long fail, and the next create gets 2
C21_Witness ==
  /\ phase = 1
  /\ ever = {1}
  /\ add_task(T_blank, D_empty).res = "ValidationError"
  /\ add_task(T_a, D_long).next_id = 2
  /\ add_task(T_a, D_empty).id = 2


\* the tasks other than i are the same, with the same fields, in old and new
OthersKept(old, new, i) ==
  /\ DOMAIN new \ {i} = DOMAIN old \ {i}
  /\ \A j \in DOMAIN old \ {i} : new[j] = old[j]

\* C22: update_task, complete_task, uncomplete_task and delete_task on task i
\* leave every field of every other stored task, and the set of the other
\* stored identifiers, unchanged (in phase 2 also the tags of the others).
C22_OtherTasksUntouched ==
  /\ phase = 1 =>
       \A i \in CallerIds1 :
         /\ \A t \in Opt(Titles), d \in Opt(Descriptions) :
              OthersKept(storage, update_task(i, t, d).storage, i)
         /\ \A r \in {complete_task(i), uncomplete_task(i), delete_task(i)} :
              OthersKept(storage, r.storage, i)
  /\ phase = 2 =>
       \A i \in CallerIds2 :
         /\ \A req \in UpdateReqs, draws \in Draws :
              LET r == update_task2(i, req, draws) IN
              /\ OthersKept(tasks, r.db.tasks, i)
              /\ {l \in r.db.task_tags : l[1] # i} = {l \in task_tags : l[1] # i}
         /\ LET r == delete_task2(i) IN
            /\ OthersKept(tasks, r.db.tasks, i)
            /\ {l \in r.db.task_tags : l[1] # i} = {l \in task_tags : l[1] # i}

\* of two stored tasks the first was completed and the second is as created
C22_Witness ==
  /\ phase = 1
  /\ DOMAIN storage = {1, 2}
  /\ storage[1].completed
  /\ ~storage[2].completed
  /\ storage[2].updated_at = storage[2].created_at


\* C23: after any sequence of add, update, complete, uncomplete and delete,
\* get_all_tasks returns exactly the tasks created and not deleted, each once
\* and as stored, in strictly ascending order of identifier (the empty list
\* when there are none).
C23_GetAllSortedExact ==
  phase = 1 =>
    LET all == find_all IN
    /\ {all[k].id : k \in 1..Len(all)} = ever \ deleted
    /\ Len(all) = Cardinality(ever \ deleted)
    /\ \A k \in 1..Len(all) : all[k] = storage[all[k].id]
    /\ \A k \in 1..(Len(all) - 1) : all[k].id < all[k + 1].id
    /\ ever \ deleted = {} => all = <<>>

\* two tasks are listed, the second of them updated after its creation
C23_Witness ==
  /\ phase = 1
  /\ Len(find_all) = 2
  /\ find_all[1].id < find_all[2].id
  /\ find_all[2].updated_at > find_all[2].created_at


\* every tag record of old is in new with the same id, name and color
TagsKept(old, new) == \A t \in DOMAIN old : t \in DOMAIN new /\ new[t] = old[t]

\* C24: no task operation removes or changes a tag record: delete_task leaves
\* the tag records as they are, and create_task and update_task only add the
\* tags that resolving their names creates, also when the task was the last
\* one linked to a tag.
C24_TagRecordsStay ==
  phase = 2 =>
    /\ \A i \in CallerIds2 :
         /\ delete_task2(i).db.tags = tags
         /\ \A req \in UpdateReqs, draws \in Draws :
              LET r == update_task2(i, req, draws) IN
              /\ TagsKept(tags, r.db.tags)
              /\ \A t \in DOMAIN r.db.tags \ DOMAIN tags :
                   /\ HasValue(req.tags)
                   /\ \E k \in 1..Len(ValueOf(req.tags)) :
                        r.db.tags[t].name = lower(ValueOf(req.tags)[k])
    /\ \A req \in CreateReqs, draws \in Draws :
         LET r == create_task(req, draws, 0) IN
         /\ TagsKept(tags, r.db.tags)
         /\ \A t \in DOMAIN r.db.tags \ DOMAIN tags :
              \E k \in 1..Len(req.tags) : r.db.tags[t].name = lower(req.tags[k])

\* the only task that was linked to a tag is deleted, or has lost the link,
\* and the tag record is still there
C24_Witness ==
  /\ phase = 2
  /\ task_pk = 2
  /\ task_tags = {}
  /\ \E t \in DOMAIN tags : tags[t].color = colors[1]


\* the word is a well-formed positive integer
WellFormedPositive(word) == int(word) # None /\ int(word)[1] > 0

\* C25: view, update, delete, complete and uncomplete reject an identifier
\* that is not a well-formed positive integer (not a number, zero, negative)
\* with InvalidTaskIdError, never with TaskNotFoundError, and leave the store
\* as it is.
C25_InvalidIdRejected ==
  phase = 1 =>
    \A c \in IdCommands, w \in IdWords, t \in {None, Some(T_a)} :
      ~WellFormedPositive(w) =>
        LET r == handle(c, w, t, None) IN
        /\ r.res = "InvalidTaskIdError"
        /\ r.storage = storage


\* C26: however concurrent create_task calls are interleaved, no two created
\* tasks have the same identifier and every created task is stored as it
\* was returned, not overwritten by another one.
C26_ConcurrentCreateUniqueIds ==
  \A t, u \in Threads :
    (threads[t].op = "add" /\ threads[t].res = "ok") =>
      /\ (u # t /\ threads[u].op = "add" /\ threads[u].res = "ok") =>
           threads[u].task_id # threads[t].task_id
      /\ threads[t].task_id \in DOMAIN storage
      /\ storage[threads[t].task_id].title = threads[t].title[1]

\* C27: list_tasks is deterministic for every sort key: tasks equal on the
\* sort key come in ascending identifier order, so two calls with the same
\* arguments on the same store return the same sequence.
C27_ListDeterministic ==
  phase = 2 =>
    \A status \in Statuses, sk \in SortKeys, limit \in Limits, offset \in Offsets :
      \A r1, r2 \in list_tasks(status, None, <<>>, sk, limit, offset) :
        /\ r1.tasks = r2.tasks
        /\ \A i, j \in 1..Len(r1.tasks) :
             (/\ i < j
              /\ ~SortsBefore(tasks[r1.tasks[i]], tasks[r1.tasks[j]], sk)
              /\ ~SortsBefore(tasks[r1.tasks[j]], tasks[r1.tasks[i]], sk))
               => r1.tasks[i] < r1.tasks[j]

\* C28: in every reachable state every stored tag name equals its trimmed,
\* lower-cased form and has between 1 and 50 characters, whichever operation
\* created the tag.
C28_TagNamesNormalized ==
  \A g \in DOMAIN tags :
    /\ tags[g].name = lower(strip(tags[g].name))
    /\ 1 <= StrLen(tags[g].name)
    /\ StrLen(tags[g].name) <= MAX_TAG_NAME_LENGTH

\* C29: an update_task call that fails with ValidationError leaves the stored
\* task unchanged in every field (title, description, completed, updated
\* timestamp), for every combination of supplied fields, a valid title
\* together with a description of more than 1000 characters included.
C29_FailedUpdateChangesNothing ==
  phase = 1 =>
    \A i \in DOMAIN storage, t \in Opt(Titles), d \in Opt(Descriptions) :
      LET r == update_task(i, t, d)
      IN r.res = "ValidationError" => r.storage[i] = storage[i]

\* C30: a (task, tag) pair appears at most once in the association in every
\* reachable state, and create_task or update_task given a tag list in which
\* several names resolve to the same tag ("a" and "A", or one name twice)
\* succeeds and links the task to that tag exactly once.
C30_DuplicateNamesLinkedOnce ==
  phase = 2 =>
    /\ \A l, m \in task_tags : (l[1] = m[1] /\ l[2] = m[2]) => l = m
    /\ \A names \in {<<N_a, N_A>>, <<N_a, N_a>>} :
         /\ LET r == create_task(CReq(T_a, UNSET, UNSET, UNSET, names), <<colors[1], colors[2]>>, 0)
            IN /\ r.res = "ok"
               /\ \E g \in DOMAIN r.db.tags :
                    /\ r.db.tags[g].name = N_a
                    /\ TagsOf(r.db, r.id) = {g}
         /\ \A i \in DOMAIN tasks :
              LET r == update_task2(i, Only("tags", Val(names)), <<colors[1], colors[2]>>)
              IN /\ r.res = "ok"
                 /\ \E g \in DOMAIN r.db.tags :
                      /\ r.db.tags[g].name = N_a
                      /\ TagsOf(r.db, i) = {g}

====
